---------------------------- MODULE Spec2Model ----------------------------
(***************************************************************************)
(* A model of build.py (SVG -> UFO): one run of build_ufo over a directory *)
(* of SVG files, followed by an optional second run over the same          *)
(* directory.  File stems and glyph names are sequences of one-character   *)
(* strings, so that the parsing and naming code is modelled by what it     *)
(* does to the characters.  Lengths are held in units of 1/Scale so that   *)
(* fractional coordinates can be written.                                  *)
(***************************************************************************)
EXTENDS Integers, Sequences, FiniteSets, TLC

(***************************************************************************)
(* Bounds of the model.                                                    *)
(***************************************************************************)
MaxFiles == 3
MaxDigits == 6
MaxCoord == 3
MaxSegs == 3
Scale == 2

(***************************************************************************)
(* Program constants: the fallback configuration of load_config and the    *)
(* space codepoint.                                                        *)
(***************************************************************************)
defaultAdvanceWidth == 1000
autoSidebearingMargin == 10
unitsPerEm == 1000
baselineSvgY == 200
SpaceCp == 32

(* codepoint_from_name returns None: no codepoint *)
NoCp == -1

(***************************************************************************)
(* Characters.  ASCII lists the printable characters from code 32 on, so   *)
(* the code of ASCII[i] is 31 + i.  The double quote, the backslash and    *)
(* the backtick are written out as words; no file name of the model uses  *)
(* them.                                                                   *)
(***************************************************************************)
ASCII ==
  << " ", "!", "dquote", "#", "$", "%", "&", "'", "(", ")", "*", "+", ",", "-",
     ".", "/", "0", "1", "2", "3", "4", "5", "6", "7", "8", "9", ":", ";",
     "<", "=", ">", "?", "@", "A", "B", "C", "D", "E", "F", "G", "H", "I",
     "J", "K", "L", "M", "N", "O", "P", "Q", "R", "S", "T", "U", "V", "W",
     "X", "Y", "Z", "[", "backslash", "]", "^", "_", "backtick", "a", "b",
     "c", "d", "e", "f", "g", "h", "i", "j", "k", "l", "m", "n", "o", "p",
     "q", "r", "s", "t", "u", "v", "w", "x", "y", "z", "{", "|", "}", "~" >>

Char == { ASCII[i] : i \in 1..Len(ASCII) }

ord == [c \in Char |-> 31 + CHOOSE i \in 1..Len(ASCII) : ASCII[i] = c]

chr(n) == ASCII[n - 31]

IsDigitChar(c) == ord[c] >= 48 /\ ord[c] <= 57

IsHexChar(c) ==
  \/ IsDigitChar(c)
  \/ ord[c] >= 65 /\ ord[c] <= 70
  \/ ord[c] >= 97 /\ ord[c] <= 102

HexVal(c) ==
  IF IsDigitChar(c) THEN ord[c] - 48
  ELSE IF ord[c] >= 97 THEN ord[c] - 87
  ELSE ord[c] - 55

UpperChar(c) == IF ord[c] >= 97 /\ ord[c] <= 122 THEN chr(ord[c] - 32) ELSE c

(* str.upper() *)
upper(s) == [i \in 1..Len(s) |-> UpperChar(s[i])]

(* str.isdigit(): non-empty and every character a digit *)
isdigit(s) == Len(s) > 0 /\ \A i \in 1..Len(s) : IsDigitChar(s[i])

RECURSIVE Zeros(_)
Zeros(n) == IF n <= 0 THEN << >> ELSE <<"0">> \o Zeros(n - 1)

(* str.zfill(width): zeros are inserted after a leading sign *)
zfill(s, width) ==
  IF Len(s) >= width THEN s
  ELSE IF Len(s) > 0 /\ s[1] \in {"+", "-"}
       THEN <<s[1]>> \o Zeros(width - Len(s)) \o Tail(s)
       ELSE Zeros(width - Len(s)) \o s

(* str.startswith(prefix) *)
startswith(s, prefix) ==
  Len(s) >= Len(prefix) /\ SubSeq(s, 1, Len(prefix)) = prefix

(* The places where sep occurs in s.  The separators used here ("-ss",    *)
(* "-cv", ".") cannot overlap themselves, so these are the occurrences    *)
(* str.split and the `in` test see.                                       *)
Occurrences(s, sep) ==
  { i \in 1..(Len(s) - Len(sep) + 1) : SubSeq(s, i, i + Len(sep) - 1) = sep }

(* Lexicographic order of two strings by character code (str.__lt__) *)
RECURSIVE StrLess(_, _)
StrLess(a, b) ==
  IF Len(b) = 0 THEN FALSE
  ELSE IF Len(a) = 0 THEN TRUE
  ELSE IF a[1] # b[1] THEN ord[a[1]] < ord[b[1]]
  ELSE StrLess(Tail(a), Tail(b))

(* int(s, 16) of a string of hexadecimal digits *)
RECURSIVE HexToInt(_)
HexToInt(s) ==
  IF Len(s) = 0 THEN 0
  ELSE 16 * HexToInt(SubSeq(s, 1, Len(s) - 1)) + HexVal(s[Len(s)])

HexDigits == <<"0", "1", "2", "3", "4", "5", "6", "7", "8", "9",
               "A", "B", "C", "D", "E", "F">>

(* format(n, "X") *)
RECURSIVE IntToHex(_)
IntToHex(n) ==
  IF n < 16 THEN <<HexDigits[n + 1]>>
  ELSE IntToHex(n \div 16) \o <<HexDigits[(n % 16) + 1]>>

(* HEX_RE = ^[0-9A-Fa-f]{4,6}$ *)
HEX_RE(s) ==
  Len(s) >= 4 /\ Len(s) <= 6 /\ \A i \in 1..Len(s) : IsHexChar(s[i])

(* UNICODE_RE = ^U\+([0-9A-Fa-f]{4,6})$ *)
UNICODE_RE(s) == startswith(s, <<"U", "+">>) /\ HEX_RE(SubSeq(s, 3, Len(s)))

(* name.split('.')[0] *)
BeforeDot(name) ==
  LET dots == Occurrences(name, <<".">>)
  IN  IF dots = {} THEN name
      ELSE SubSeq(name, 1, (CHOOSE i \in dots : \A j \in dots : i <= j) - 1)

codepoint_from_name(name) ==
  LET base == BeforeDot(name)
  IN  IF UNICODE_RE(base) THEN HexToInt(SubSeq(base, 3, Len(base)))
      ELSE IF HEX_RE(base) THEN HexToInt(base)
      ELSE IF Len(base) = 1 THEN ord[base[1]]
      ELSE NoCp

production_name_from_cp(cp) ==
  IF cp <= 65535 THEN <<"u", "n", "i">> \o zfill(IntToHex(cp), 4)
  ELSE <<"u">> \o zfill(IntToHex(cp), 5)


(***************************************************************************)
(* Python dicts keep insertion order; assigning to a key that is present   *)
(* replaces its value and keeps its place.  A dict is a sequence of        *)
(* records with a `name` field (the key).                                  *)
(***************************************************************************)
DictHas(d, key) == \E i \in 1..Len(d) : d[i].name = key

DictGet(d, key) == d[CHOOSE i \in 1..Len(d) : d[i].name = key]

DictSet(d, entry) ==
  IF DictHas(d, entry.name)
  THEN [i \in 1..Len(d) |-> IF d[i].name = entry.name THEN entry ELSE d[i]]
  ELSE Append(d, entry)

DictKeys(d) == { d[i].name : i \in 1..Len(d) }

(***************************************************************************)
(* detect_alternate_glyphs: what one file stem adds to `alternates`.       *)
(* VariantOf(name, sep, mark, type) is the body of one branch: the record  *)
(* of a stem "<base><sep><digits>", or no record.                          *)
(***************************************************************************)
SS_SEP == <<"-", "s", "s">>
CV_SEP == <<"-", "c", "v">>
U_PLUS == <<"U", "+">>

VariantOf(name, sep, mark, type) ==
  LET occ == Occurrences(name, sep)
  IN  IF Cardinality(occ) # 1 THEN << >>
      ELSE LET at == CHOOSE i \in occ : TRUE
               base_name == SubSeq(name, 1, at - 1)
               number == SubSeq(name, at + Len(sep), Len(name))
               uni_base ==
                 IF startswith(base_name, U_PLUS)
                 THEN <<"u", "n", "i">>
                      \o zfill(upper(SubSeq(base_name, 3, Len(base_name))), 4)
                 ELSE base_name
           IN  IF ~isdigit(number) THEN << >>
               ELSE << [name |-> uni_base \o mark \o zfill(number, 2),
                        file |-> name,
                        base |-> base_name,
                        type |-> type,
                        number |-> number] >>

DetectOne(name) ==
  IF Occurrences(name, SS_SEP) # {}
  THEN VariantOf(name, SS_SEP, <<".", "s", "s">>, "stylistic_set")
  ELSE IF Occurrences(name, CV_SEP) # {}
  THEN VariantOf(name, CV_SEP, <<".", "c", "v">>, "character_variant")
  ELSE << >>

(* alternates[alt_glyph] = {...} for the file, if it is a variant file *)
DetectInto(alternates, name) ==
  LET found == DetectOne(name)
  IN  IF found = << >> THEN alternates ELSE DictSet(alternates, found[1])

(***************************************************************************)
(* Numbers.  A length x is held as the integer x * Scale.  int() truncates *)
(* towards zero.                                                           *)
(***************************************************************************)
(* int() rounding down instead of towards zero *)
floor_int(v) == v \div Scale

int(v) == IF v >= 0 THEN v \div Scale ELSE -((-v) \div Scale)

NoBBox == << >>

(* calculate_auto_sidebearings(bbox, config, margin_units); margin_units   *)
(* and the bbox are scaled, the widths and margins returned are whole      *)
(* units, offsetX is scaled.                                               *)
calculate_auto_sidebearings(bbox, margin_units) ==
  IF bbox = NoBBox THEN << >>
  ELSE LET min_x == bbox[1]
           max_x == bbox[3]
           glyph_width == max_x - min_x
           left_margin == margin_units
           right_margin == margin_units
       IN  << [width |-> int(left_margin + glyph_width + right_margin),
               leftMargin |-> int(left_margin),
               rightMargin |-> int(right_margin),
               glyphWidth |-> int(glyph_width),
               svgMinX |-> min_x,
               offsetX |-> left_margin - min_x] >>


(***************************************************************************)
(* The inputs: the SVG directory and the configuration.  A directory is a  *)
(* set of at most MaxFiles of the files below, named by their stems; a     *)
(* file's geometry is the bounding box given for its stem, and one file    *)
(* holds SVG text that the parser rejects.                                 *)
(***************************************************************************)
F_0061 == <<"0", "0", "6", "1">>
F_U0061 == <<"U", "+", "0", "0", "6", "1">>
F_U0062 == <<"U", "+", "0", "0", "6", "2">>
F_0020 == <<"0", "0", "2", "0">>
F_sp == <<" ">>
F_zz == <<"z", "z">>
F_0041 == <<"0", "0", "4", "1">>
F_U0061_ss01 == <<"U", "+", "0", "0", "6", "1", "-", "s", "s", "0", "1">>
F_uni0061_ss1 == <<"u", "n", "i", "0", "0", "6", "1", "-", "s", "s", "1">>
F_uni0061_ss02 == <<"u", "n", "i", "0", "0", "6", "1", "-", "s", "s", "0", "2">>
F_uni0061_cv01 == <<"u", "n", "i", "0", "0", "6", "1", "-", "c", "v", "0", "1">>
F_U0062_ss01 == <<"U", "+", "0", "0", "6", "2", "-", "s", "s", "0", "1">>
F_U61_ss02 == <<"U", "+", "6", "1", "-", "s", "s", "0", "2">>
F_U00061_cv01 == <<"U", "+", "0", "0", "0", "6", "1", "-", "c", "v", "0", "1">>

Stems ==
  { F_0061, F_U0061, F_U0062, F_0020, F_sp, F_zz, F_0041, F_U0061_ss01,
    F_uni0061_ss1, F_uni0061_ss02,
    F_uni0061_cv01, F_U0062_ss01, F_U61_ss02, F_U00061_cv01 }

(* The bounding box (min_x, min_y, max_x, max_y) of each file's shapes,    *)
(* scaled; NoBBox for a file with no shapes.                               *)
BBoxOf(stem) ==
  CASE stem = F_0061 -> <<10 * Scale, 0, 90 * Scale, 100 * Scale>>
    [] stem = F_U0061 -> <<20 * Scale + 1, 0, 70 * Scale, 100 * Scale>>
    [] stem = F_U0062 -> <<-5 * Scale, 0, 45 * Scale, 100 * Scale>>
    [] stem = F_0020 -> NoBBox
    [] stem = F_sp -> <<0, 0, 30 * Scale, 10 * Scale>>
    [] stem = F_zz -> <<0, 0, 40 * Scale, 40 * Scale>>
    [] stem = F_0041 -> <<0, 0, 60 * Scale, 70 * Scale>>
    [] stem = F_U0061_ss01 -> <<30 * Scale, 0, 80 * Scale, 100 * Scale>>
    [] stem = F_uni0061_ss1 -> <<15 * Scale, 0, 95 * Scale, 100 * Scale>>
    [] stem = F_uni0061_ss02 -> <<25 * Scale, 0, 75 * Scale, 90 * Scale>>
    [] stem = F_uni0061_cv01 -> <<12 * Scale, 0, 60 * Scale, 100 * Scale>>
    [] stem = F_U0062_ss01 -> NoBBox
    [] stem = F_U61_ss02 -> <<5 * Scale, 0, 55 * Scale, 100 * Scale>>
    [] stem = F_U00061_cv01 -> <<8 * Scale, 0, 58 * Scale, 100 * Scale>>

(* the files whose SVG text does not parse *)
Malformed == { F_0041 }

Directories ==
  { d \in SUBSET Stems : Cardinality(d) <= MaxFiles }

G_notdef == <<".", "n", "o", "t", "d", "e", "f">>
G_space == <<"s", "p", "a", "c", "e">>
G_uni0061 == <<"u", "n", "i", "0", "0", "6", "1">>
G_uni0062 == <<"u", "n", "i", "0", "0", "6", "2">>
G_uni0063 == <<"u", "n", "i", "0", "0", "6", "3">>
G_uni0061_ss01 == G_uni0061 \o <<".", "s", "s", "0", "1">>

(* config["glyphMetrics"]: per-glyph overrides; a key may be missing *)
Override(name, has_width, width, has_leftMargin, leftMargin) ==
  [name |-> name, has_width |-> has_width, width |-> width,
   has_leftMargin |-> has_leftMargin, leftMargin |-> leftMargin]

NoMetrics == << >>

RegularMetrics ==
  << Override(G_uni0061, TRUE, 600, TRUE, 20),
     Override(G_space, FALSE, 0, TRUE, 5) >>

AlternateMetrics ==
  << Override(G_uni0061_ss01, TRUE, 700, TRUE, 25),
     Override(G_uni0062, FALSE, 0, TRUE, 30) >>

(* config["kerning"]: left glyph -> right glyph -> value *)
KernRight(name, value) == [name |-> name, value |-> value]

NoKerning == << >>

SomeKerning ==
    << [name |-> G_uni0061,
        rights |-> << KernRight(G_uni0062, -50), KernRight(G_uni0063, -20),
                      KernRight(G_uni0061_ss01, 15) >>],
       [name |-> G_uni0063, rights |-> << KernRight(G_uni0061, 10) >>],
       [name |-> G_space, rights |-> << KernRight(G_uni0061, 5) >>] >>

Configuration(auto, metrics, kern) ==
  [auto_sidebearing |-> auto, glyphMetrics |-> metrics, kerning |-> kern]

(* the configurations of a run: the `auto` argument and font-config.json *)
Configurations ==
  { Configuration(FALSE, NoMetrics, NoKerning),
    Configuration(TRUE, NoMetrics, SomeKerning),
    Configuration(FALSE, RegularMetrics, NoKerning),
    Configuration(TRUE, RegularMetrics, SomeKerning),
    Configuration(FALSE, AlternateMetrics, SomeKerning),
    Configuration(TRUE, AlternateMetrics, SomeKerning) }

(***************************************************************************)
(* Files.                                                                  *)
(***************************************************************************)
FileName(stem) == stem \o <<".", "s", "v", "g">>

(* sorted(SVG_DIR.glob("*.svg")): by file name *)
RECURSIVE SortedFiles(_)
SortedFiles(S) ==
  IF S = {} THEN << >>
  ELSE LET m == CHOOSE f \in S :
                  \A g \in S \ {f} : StrLess(FileName(f), FileName(g))
       IN  <<m>> \o SortedFiles(S \ {m})

VARIABLES
  dir,                 \* the stems of the files of SVG_DIR
  auto_sidebearing,    \* the `auto` argument
  metrics_config,      \* config["glyphMetrics"]
  kerning_config,      \* config["kerning"]
  pc,                  \* where build_ufo is
  idx,                 \* position of the running loop in its list
  pending,             \* files glob() has not yet yielded
  calculated_metrics,  \* analyze_all_svgs_for_metrics' result
  alternates,          \* detect_alternate_glyphs' result
  has_space,
  processed_regulars,
  processed_alternates,
  u,                   \* the font: glyph name -> glyph
  glyph_order,
  kerning,             \* u.kerning
  features,            \* u.features.text, as its blocks
  skipped,             \* files a diagnostic reported as skipped
  run,                 \* 1 for the first run, 2 for the second
  first                \* what the first run produced

inputs == <<dir, auto_sidebearing, metrics_config, kerning_config>>

locals ==
  <<pc, idx, pending, calculated_metrics, alternates, has_space,
    processed_regulars, processed_alternates, u, glyph_order, kerning,
    features, skipped>>

(* The functions checked on their own, outside a run of build_ufo.         *)
VARIABLES
  svg_stem,            \* detect_alternate_glyphs: svg_file.stem
  alt_record,          \* the record the stem adds to `alternates`, if any
  resolved_base,       \* generate_opentype_features: the record's base_glyph
  name_pc,             \* where the naming of one variant file is
  plan_bbox,           \* calculate_auto_sidebearings: bbox
  plan_margin,         \* calculate_auto_sidebearings: margin_units
  plan_out,            \* what calculate_auto_sidebearings returned
  plan_pc,             \* where the call of calculate_auto_sidebearings is
  svg_path,            \* draw_svg_path_into_pen: the path, its segments
  svg_y_down,          \* config["build"]["svgYIsDown"]
  seg_i,               \* _split_into_contours: position of `for seg`
  current,             \* _split_into_contours: the run being collected
  prev_end,            \* _split_into_contours: << >> for None, or <<point>>
  contours,            \* _split_into_contours: the contours found so far
  contour_i,           \* draw_svg_path_into_pen: position of `for segs`
  pen_ops,             \* the calls the pen has received, in order
  draw_pc              \* where draw_svg_path_into_pen is

name_vars == <<svg_stem, alt_record, resolved_base, name_pc>>

plan_vars == <<plan_bbox, plan_margin, plan_out, plan_pc>>

draw_vars ==
  <<svg_path, svg_y_down, seg_i, current, prev_end, contours, contour_i,
    pen_ops, draw_pc>>

unit_vars == <<name_vars, plan_vars, draw_vars>>

vars == <<inputs, locals, run, first, unit_vars>>

NameIdle ==
  /\ svg_stem = << >>
  /\ alt_record = << >>
  /\ resolved_base = << >>
  /\ name_pc = "idle"

PlanIdle ==
  /\ plan_bbox = << >>
  /\ plan_margin = 0
  /\ plan_out = << >>
  /\ plan_pc = "idle"

DrawIdle ==
  /\ svg_path = << >>
  /\ svg_y_down = TRUE
  /\ seg_i = 1
  /\ current = << >>
  /\ prev_end = << >>
  /\ contours = << >>
  /\ contour_i = 1
  /\ pen_ops = << >>
  /\ draw_pc = "idle"

UnitIdle == NameIdle /\ PlanIdle /\ DrawIdle

(* get_svg_bbox: a parse error is caught and gives None *)
get_svg_bbox(svg_file) ==
  IF svg_file \in Malformed THEN NoBBox ELSE BBoxOf(svg_file)

(* svg2paths2 in load_svg_to_glyph raises on text that does not parse *)
LoadRaises(svg_file) == svg_file \in Malformed

(* "space" for U+0020, the production name otherwise *)
GlyphNameOfCp(cp) ==
  IF cp = SpaceCp THEN G_space ELSE production_name_from_cp(cp)


(***************************************************************************)
(* generate_opentype_features.  The feature text is held as its blocks:    *)
(* a block is [tag, stmts] for "feature <tag> { ... } <tag>;", a statement *)
(* is "sub <base> by <alts[1]>;", "sub <base> from [<alts>];" or           *)
(* "feature <ref>;".                                                       *)
(***************************************************************************)
Front(q) == SubSeq(q, 1, Len(q) - 1)

Last(q) == q[Len(q)]

SubBy(base, alt) ==
  [op |-> "by", base |-> base, alts |-> <<alt>>, ref |-> << >>]

SubFrom(base, alts) ==
  [op |-> "from", base |-> base, alts |-> alts, ref |-> << >>]

FeatureRef(tag) ==
  [op |-> "feature", base |-> << >>, alts |-> << >>, ref |-> tag]

T_salt == <<"s", "a", "l", "t">>
T_aalt == <<"a", "a", "l", "t">>

(* production_name_from_cp(None) raises TypeError: a record whose          *)
(* alternate exists and whose "U+..." base gives no codepoint              *)
FeaturesRaise(font_glyphs, detected_alternates) ==
  \E i \in 1..Len(detected_alternates) :
     LET alt_info == detected_alternates[i]
     IN  /\ alt_info.name \in font_glyphs
         /\ startswith(alt_info.base, U_PLUS)
         /\ codepoint_from_name(alt_info.base) = NoCp

(* the base glyph name of a record *)
BaseGlyphOf(alt_info) ==
  IF startswith(alt_info.base, U_PLUS)
  THEN GlyphNameOfCp(codepoint_from_name(alt_info.base))
  ELSE alt_info.base

(* RecordKept without the test of the base glyph *)
RecordKeptAltOnly(font_glyphs, alt_info) ==
  alt_info.name \in font_glyphs

(* a record passes when its alternate and its base glyph both exist *)
RecordKept(font_glyphs, alt_info) ==
  /\ alt_info.name \in font_glyphs
  /\ BaseGlyphOf(alt_info) \in font_glyphs

(* AddAlt assigning the list instead of appending to it *)
AddAltOverwrite(d, base_glyph, alt_name) ==
  DictSet(d, [name |-> base_glyph, alts |-> <<alt_name>>])

(* d[base].append(alt), creating d[base] = [] first when it is missing *)
AddAlt(d, base_glyph, alt_name) ==
  IF DictHas(d, base_glyph)
  THEN DictSet(d, [name |-> base_glyph,
                   alts |-> Append(DictGet(d, base_glyph).alts, alt_name)])
  ELSE Append(d, [name |-> base_glyph, alts |-> <<alt_name>>])

(* d[tag][base].append(alt), creating d[tag] = {} first when missing *)
AddTagged(d, feature_tag, base_glyph, alt_name) ==
  IF DictHas(d, feature_tag)
  THEN DictSet(d, [name |-> feature_tag,
                   bases |-> AddAlt(DictGet(d, feature_tag).bases,
                                    base_glyph, alt_name)])
  ELSE Append(d, [name |-> feature_tag,
                  bases |-> AddAlt(<< >>, base_glyph, alt_name)])

FeatureTag(prefix, alt_info) == prefix \o zfill(alt_info.number, 2)

(* the grouping loop over detected_alternates.items() *)
RECURSIVE Grouped(_, _)
Grouped(font_glyphs, recs) ==
  IF Len(recs) = 0
  THEN [all_alternates_by_base |-> << >>,
        stylistic_sets |-> << >>,
        character_variants |-> << >>]
  ELSE LET acc == Grouped(font_glyphs, Front(recs))
           alt_info == Last(recs)
       IN  IF ~RecordKept(font_glyphs, alt_info) THEN acc
           ELSE LET base_glyph == BaseGlyphOf(alt_info)
                IN  [all_alternates_by_base |->
                       AddAlt(acc.all_alternates_by_base, base_glyph,
                              alt_info.name),
                     stylistic_sets |->
                       IF alt_info.type = "stylistic_set"
                       THEN AddTagged(acc.stylistic_sets,
                                      FeatureTag(<<"s", "s">>, alt_info),
                                      base_glyph, alt_info.name)
                       ELSE acc.stylistic_sets,
                     character_variants |->
                       IF alt_info.type = "character_variant"
                       THEN AddTagged(acc.character_variants,
                                      FeatureTag(<<"c", "v">>, alt_info),
                                      base_glyph, alt_info.name)
                       ELSE acc.character_variants]

(* SortedByName without the sort: the dict in insertion order *)
Unsorted(d) == d

(* sorted(d.items()): by key *)
RECURSIVE SortedByName(_)
SortedByName(d) ==
  IF Len(d) = 0 THEN << >>
  ELSE LET m == CHOOSE i \in 1..Len(d) :
                  \A j \in 1..Len(d) : j = i \/ StrLess(d[i].name, d[j].name)
       IN  <<d[m]>>
           \o SortedByName([k \in 1..(Len(d) - 1) |->
                              IF k < m THEN d[k] ELSE d[k + 1]])

(* a stylistic set substitutes each base by its first alternate *)
SsBlock(entry) ==
  [tag |-> entry.name,
   stmts |-> [i \in 1..Len(entry.bases) |->
                SubBy(entry.bases[i].name, entry.bases[i].alts[1])]]

(* one alternate: "sub .. by ..", several: "sub .. from [..]" *)
ChoiceStmt(base_entry) ==
  IF Len(base_entry.alts) = 1
  THEN SubBy(base_entry.name, base_entry.alts[1])
  ELSE SubFrom(base_entry.name, base_entry.alts)

CvBlock(entry) ==
  [tag |-> entry.name,
   stmts |-> [i \in 1..Len(entry.bases) |-> ChoiceStmt(entry.bases[i])]]

SaltBlocks(all_alternates_by_base) ==
  IF Len(all_alternates_by_base) = 0 THEN << >>
  ELSE << [tag |-> T_salt,
           stmts |-> [i \in 1..Len(all_alternates_by_base) |->
                        ChoiceStmt(all_alternates_by_base[i])]] >>

(* the leading digits of s: what \d+ matches at its start *)
RECURSIVE LeadingDigits(_)
LeadingDigits(s) ==
  IF Len(s) = 0 \/ ~IsDigitChar(s[1]) THEN << >>
  ELSE <<s[1]>> \o LeadingDigits(Tail(s))

(* The reference aalt makes to a block, found in the block's text: *)
(* "feature salt", else "feature (ss\d+)", else "feature (cv\d+)". The     *)
(* text searched is the block's header line "feature <tag> {"; glyph names *)
(* holding the words "feature ss" are outside the model.                   *)
AaltRefOf(block) ==
  LET tag == block.tag
      rest == SubSeq(tag, 3, Len(tag))
  IN  IF startswith(tag, T_salt) THEN <<FeatureRef(T_salt)>>
      ELSE IF startswith(tag, <<"s", "s">>)
      THEN IF LeadingDigits(rest) = << >> THEN << >>
           ELSE <<FeatureRef(<<"s", "s">> \o LeadingDigits(rest))>>
      ELSE IF startswith(tag, <<"c", "v">>)
      THEN IF LeadingDigits(rest) = << >> THEN << >>
           ELSE <<FeatureRef(<<"c", "v">> \o LeadingDigits(rest))>>
      ELSE << >>

RECURSIVE AaltRefs(_)
AaltRefs(blocks) ==
  IF Len(blocks) = 0 THEN << >>
  ELSE AaltRefs(Front(blocks)) \o AaltRefOf(Last(blocks))

AaltBlocks(blocks) ==
  IF Len(blocks) = 0 THEN << >>
  ELSE << [tag |-> T_aalt, stmts |-> AaltRefs(blocks)] >>

generate_opentype_features(font_glyphs, detected_alternates) ==
  LET g == Grouped(font_glyphs, detected_alternates)
      ss == SortedByName(g.stylistic_sets)
      cv == SortedByName(g.character_variants)
      blocks == [i \in 1..Len(ss) |-> SsBlock(ss[i])]
                \o [i \in 1..Len(cv) |-> CvBlock(cv[i])]
                \o SaltBlocks(g.all_alternates_by_base)
  IN  blocks \o AaltBlocks(blocks)


(***************************************************************************)
(* build_ufo.                                                              *)
(***************************************************************************)
NoFile == << >>

Glyph(unicodes, width, src, offset) ==
  [unicodes |-> unicodes, width |-> width, src |-> src, offset |-> offset]

(* the glyph u.newGlyph(name) creates, before anything is drawn or set *)
NewGlyph(unicodes) == Glyph(unicodes, 0, NoFile, 0)

NoOutput ==
  [pc |-> "none", glyph_order |-> << >>, u |-> << >>, kerning |-> << >>,
   features |-> << >>]

(* The width and the offset of a glyph: a manual override first, then the  *)
(* pre-analysed metrics, then the default width with no offset.            *)
ResolveMetrics(gname, svg_file) ==
  IF DictHas(metrics_config, gname)
  THEN LET metrics == DictGet(metrics_config, gname)
           bbox == get_svg_bbox(svg_file)
       IN  [width |-> IF metrics.has_width THEN metrics.width
                      ELSE defaultAdvanceWidth,
            offset |-> IF metrics.has_leftMargin /\ bbox # NoBBox
                       THEN metrics.leftMargin * Scale - bbox[1]
                       ELSE 0]
  ELSE IF auto_sidebearing /\ gname \in DOMAIN calculated_metrics
  THEN [width |-> calculated_metrics[gname].width,
        offset |-> calculated_metrics[gname].offsetX]
  ELSE [width |-> defaultAdvanceWidth, offset |-> 0]

(* if gname not in glyph_order: glyph_order.append(gname) *)
OrderAppend(order, gname) ==
  IF \E i \in 1..Len(order) : order[i] = gname THEN order
  ELSE Append(order, gname)

(* the stems of the files that `alternates` holds *)
alternate_files == { alternates[i].file : i \in 1..Len(alternates) }

Init ==
  /\ dir \in Directories
  /\ \E config \in Configurations :
        /\ auto_sidebearing = config.auto_sidebearing
        /\ metrics_config = config.glyphMetrics
        /\ kerning_config = config.kerning
  /\ pc = "analyze"
  /\ idx = 1
  /\ pending = {}
  /\ calculated_metrics = << >>
  /\ alternates = << >>
  /\ has_space = FALSE
  /\ processed_regulars = {}
  /\ processed_alternates = {}
  /\ u = << >>
  /\ glyph_order = << >>
  /\ kerning = << >>
  /\ features = << >>
  /\ skipped = {}
  /\ run = 1
  /\ first = NoOutput
  /\ UnitIdle

(* analyze_all_svgs_for_metrics: one file of the sorted listing *)
AnalyzeStep ==
  /\ pc = "analyze"
  /\ auto_sidebearing
  /\ idx <= Len(SortedFiles(dir))
  /\ LET svg_file == SortedFiles(dir)[idx]
         cp == codepoint_from_name(svg_file)
     IN  IF cp = NoCp
         THEN UNCHANGED calculated_metrics
         ELSE LET gname == GlyphNameOfCp(cp)
                  auto_metrics ==
                    calculate_auto_sidebearings(get_svg_bbox(svg_file),
                                                autoSidebearingMargin * Scale)
              IN  IF auto_metrics = << >>
                  THEN UNCHANGED calculated_metrics
                  ELSE calculated_metrics' =
                         (gname :> [width |-> auto_metrics[1].width,
                                    leftMargin |-> auto_metrics[1].leftMargin,
                                    rightMargin |-> auto_metrics[1].rightMargin,
                                    offsetX |-> auto_metrics[1].offsetX])
                         @@ calculated_metrics
  /\ idx' = idx + 1
  /\ UNCHANGED unit_vars
  /\ UNCHANGED <<inputs, pc, pending, alternates, has_space,
                 processed_regulars, processed_alternates, u, glyph_order,
                 kerning, features, skipped, run, first>>

(* the font and its .notdef glyph, once the analysis (if any) is over *)
CreateFont ==
  /\ pc = "analyze"
  /\ ~auto_sidebearing \/ idx > Len(SortedFiles(dir))
  /\ u' = (G_notdef :> Glyph(<< >>, defaultAdvanceWidth, NoFile, 0))
  /\ glyph_order' = <<G_notdef>>
  /\ pc' = "detect"
  /\ pending' = dir
  /\ idx' = 1
  /\ UNCHANGED unit_vars
  /\ UNCHANGED <<inputs, calculated_metrics, alternates, has_space,
                 processed_regulars, processed_alternates, kerning, features,
                 skipped, run, first>>

(* detect_alternate_glyphs: the next file glob() yields, in any order *)
DetectStep ==
  /\ pc = "detect"
  /\ \E svg_file \in pending :
        /\ alternates' = DetectInto(alternates, svg_file)
        /\ pending' = pending \ {svg_file}
  /\ UNCHANGED unit_vars
  /\ UNCHANGED <<inputs, pc, idx, calculated_metrics, has_space,
                 processed_regulars, processed_alternates, u, glyph_order,
                 kerning, features, skipped, run, first>>

BeginRegular ==
  /\ pc = "detect"
  /\ pending = {}
  /\ pc' = "regular"
  /\ idx' = 1
  /\ has_space' = FALSE
  /\ processed_regulars' = {}
  /\ UNCHANGED unit_vars
  /\ UNCHANGED <<inputs, pending, calculated_metrics, alternates,
                 processed_alternates, u, glyph_order, kerning, features,
                 skipped, run, first>>

(* One glyph built from svg_file under gname.  The glyph is created, its   *)
(* metrics are resolved, and the file is loaded: a file that does not      *)
(* parse raises out of build_ufo.                                          *)
Realize(gname, unicodes, svg_file) ==
  LET m == ResolveMetrics(gname, svg_file)
  IN  IF LoadRaises(svg_file)
      THEN /\ u' = (gname :> NewGlyph(unicodes)) @@ u
           /\ pc' = "aborted"
           /\ UNCHANGED glyph_order
      ELSE /\ u' = (gname :> Glyph(unicodes, m.width, svg_file, m.offset)) @@ u
           /\ glyph_order' = OrderAppend(glyph_order, gname)
           /\ UNCHANGED pc

(* the regular loop: one file of the sorted listing *)
RegularStep ==
  /\ pc = "regular"
  /\ idx <= Len(SortedFiles(dir))
  /\ idx' = idx + 1
  /\ LET svg_file == SortedFiles(dir)[idx]
         cp == codepoint_from_name(svg_file)
         gname == GlyphNameOfCp(cp)
     IN  IF svg_file \in alternate_files
         THEN UNCHANGED <<pc, has_space, processed_regulars, u, glyph_order,
                          skipped>>
         ELSE IF cp = NoCp
         THEN /\ skipped' = skipped \cup {svg_file}
              /\ UNCHANGED <<pc, has_space, processed_regulars, u,
                             glyph_order>>
         ELSE /\ has_space' = (has_space \/ cp = SpaceCp)
              /\ IF gname \in processed_regulars \/ gname \in DOMAIN u
                 THEN /\ skipped' = skipped \cup {svg_file}
                      /\ UNCHANGED <<pc, processed_regulars, u, glyph_order>>
                 ELSE /\ processed_regulars' = processed_regulars \cup {gname}
                      /\ Realize(gname, <<cp>>, svg_file)
                      /\ UNCHANGED skipped
  /\ UNCHANGED unit_vars
  /\ UNCHANGED <<inputs, pending, calculated_metrics, alternates,
                 processed_alternates, kerning, features, run, first>>

BeginAlternates ==
  /\ pc = "regular"
  /\ idx > Len(SortedFiles(dir))
  /\ pc' = "alternates"
  /\ idx' = 1
  /\ processed_alternates' = {}
  /\ UNCHANGED unit_vars
  /\ UNCHANGED <<inputs, pending, calculated_metrics, alternates, has_space,
                 processed_regulars, u, glyph_order, kerning, features,
                 skipped, run, first>>

(* the alternates loop: the next entry of alternates.items() *)
AlternateStep ==
  /\ pc = "alternates"
  /\ idx <= Len(alternates)
  /\ idx' = idx + 1
  /\ LET alt_info == alternates[idx]
         gname == alt_info.name
         svg_file == alt_info.file
     IN  IF gname \in processed_alternates \/ gname \in DOMAIN u
         THEN /\ skipped' = skipped \cup {svg_file}
              /\ UNCHANGED <<pc, processed_alternates, u, glyph_order>>
         ELSE /\ processed_alternates' = processed_alternates \cup {gname}
              /\ Realize(gname, << >>, svg_file)
              /\ UNCHANGED skipped
  /\ UNCHANGED unit_vars
  /\ UNCHANGED <<inputs, pending, calculated_metrics, alternates, has_space,
                 processed_regulars, kerning, features, run, first>>

(* FallbackSpace without the test of has_space *)
FallbackSpaceAlways ==
  /\ pc = "alternates"
  /\ idx > Len(alternates)
  /\ u' = (G_space :> Glyph(<<SpaceCp>>, defaultAdvanceWidth, NoFile, 0)) @@ u
  /\ glyph_order' = Append(glyph_order, G_space)
  /\ pc' = "kerning"
  /\ idx' = 1
  /\ UNCHANGED unit_vars
  /\ UNCHANGED <<inputs, pending, calculated_metrics, alternates, has_space,
                 processed_regulars, processed_alternates, kerning, features,
                 skipped, run, first>>

(* the fallback space glyph, once the alternates loop is over *)
FallbackSpace ==
  /\ pc = "alternates"
  /\ idx > Len(alternates)
  /\ IF ~has_space
     THEN /\ u' = (G_space :> Glyph(<<SpaceCp>>, defaultAdvanceWidth,
                                    NoFile, 0)) @@ u
          /\ glyph_order' = Append(glyph_order, G_space)
     ELSE UNCHANGED <<u, glyph_order>>
  /\ pc' = "kerning"
  /\ idx' = 1
  /\ UNCHANGED unit_vars
  /\ UNCHANGED <<inputs, pending, calculated_metrics, alternates, has_space,
                 processed_regulars, processed_alternates, kerning, features,
                 skipped, run, first>>

(* ApplyRights without the test of the right glyph *)
RECURSIVE ApplyRightsUnchecked(_, _, _, _)
ApplyRightsUnchecked(table, font_glyphs, left_glyph, rights) ==
  IF Len(rights) = 0 THEN table
  ELSE (<<left_glyph, Last(rights).name>> :> Last(rights).value)
       @@ ApplyRightsUnchecked(table, font_glyphs, left_glyph, Front(rights))

(* for right_glyph, kern_value in right_dict.items(): ... *)
RECURSIVE ApplyRights(_, _, _, _)
ApplyRights(table, font_glyphs, left_glyph, rights) ==
  IF Len(rights) = 0 THEN table
  ELSE LET done == ApplyRights(table, font_glyphs, left_glyph, Front(rights))
           right == Last(rights)
       IN  IF right.name \in font_glyphs
           THEN (<<left_glyph, right.name>> :> right.value) @@ done
           ELSE done

(* the kerning loop: the next left glyph of the configuration *)
KerningStep ==
  /\ pc = "kerning"
  /\ idx <= Len(kerning_config)
  /\ idx' = idx + 1
  /\ LET left == kerning_config[idx]
     IN  IF left.name \in DOMAIN u
         THEN kerning' = ApplyRights(kerning, DOMAIN u, left.name, left.rights)
         ELSE UNCHANGED kerning
  /\ UNCHANGED unit_vars
  /\ UNCHANGED <<inputs, pc, pending, calculated_metrics, alternates,
                 has_space, processed_regulars, processed_alternates, u,
                 glyph_order, features, skipped, run, first>>

(* the feature text, and the end of build_ufo *)
GenerateFeatures ==
  /\ pc = "kerning"
  /\ idx > Len(kerning_config)
  /\ IF FeaturesRaise(DOMAIN u, alternates)
     THEN /\ pc' = "aborted"
          /\ UNCHANGED features
     ELSE /\ pc' = "done"
          /\ features' = generate_opentype_features(DOMAIN u, alternates)
  /\ UNCHANGED unit_vars
  /\ UNCHANGED <<inputs, idx, pending, calculated_metrics, alternates,
                 has_space, processed_regulars, processed_alternates, u,
                 glyph_order, kerning, skipped, run, first>>

(* a second run of the program over the same directory and configuration, *)
(* after a first run that completed                                        *)
Rerun ==
  /\ pc = "done"
  /\ run = 1
  /\ run' = 2
  /\ first' = [pc |-> pc, glyph_order |-> glyph_order, u |-> u,
               kerning |-> kerning, features |-> features]
  /\ pc' = "analyze"
  /\ idx' = 1
  /\ pending' = {}
  /\ calculated_metrics' = << >>
  /\ alternates' = << >>
  /\ has_space' = FALSE
  /\ processed_regulars' = {}
  /\ processed_alternates' = {}
  /\ u' = << >>
  /\ glyph_order' = << >>
  /\ kerning' = << >>
  /\ features' = << >>
  /\ skipped' = {}
  /\ UNCHANGED <<unit_vars, inputs>>

Next ==
  \/ AnalyzeStep
  \/ CreateFont
  \/ DetectStep
  \/ BeginRegular
  \/ RegularStep
  \/ BeginAlternates
  \/ AlternateStep
  \/ FallbackSpace
  \/ KerningStep
  \/ GenerateFeatures
  \/ Rerun

Spec == Init /\ [][Next]_vars


(***************************************************************************)
(* The naming of one variant file: detect_alternate_glyphs builds the      *)
(* record of the file named "U+<hex><sep><number>.svg", then               *)
(* generate_opentype_features resolves the record's base glyph.  The       *)
(* designators are the strings of 1 to MaxDigits characters of             *)
(* HexAlphabet, which holds a lower-case digit and reaches U+0020 and      *)
(* the codepoints above U+FFFF.                                            *)
(***************************************************************************)
BuildIdle ==
  /\ dir = {}
  /\ auto_sidebearing = FALSE
  /\ metrics_config = NoMetrics
  /\ kerning_config = NoKerning
  /\ pc = "idle"
  /\ idx = 1
  /\ pending = {}
  /\ calculated_metrics = << >>
  /\ alternates = << >>
  /\ has_space = FALSE
  /\ processed_regulars = {}
  /\ processed_alternates = {}
  /\ u = << >>
  /\ glyph_order = << >>
  /\ kerning = << >>
  /\ features = << >>
  /\ skipped = {}
  /\ run = 1
  /\ first = NoOutput

build_vars == <<inputs, locals, run, first>>

HexAlphabet == {"0", "2", "F", "a"}

RECURSIVE Designators(_)
Designators(n) ==
  IF n = 0 THEN { << >> }
  ELSE { Append(h, c) : h \in Designators(n - 1), c \in HexAlphabet }

VariantNumbers == { <<"1">>, <<"0", "1">>, <<"1", "2">> }

VariantStems ==
  { U_PLUS \o h \o sep \o number :
      h \in UNION { Designators(n) : n \in 1..MaxDigits },
      sep \in {SS_SEP, CV_SEP},
      number \in VariantNumbers }

NameInit ==
  /\ BuildIdle
  /\ PlanIdle
  /\ DrawIdle
  /\ svg_stem \in VariantStems
  /\ alt_record = << >>
  /\ resolved_base = << >>
  /\ name_pc = "detect"

(* detect_alternate_glyphs: the loop body for the file *)
DetectName ==
  /\ name_pc = "detect"
  /\ alt_record' = DetectOne(svg_stem)
  /\ name_pc' = IF DetectOne(svg_stem) = << >> THEN "done" ELSE "resolve"
  /\ UNCHANGED <<build_vars, plan_vars, draw_vars, svg_stem,
                 resolved_base>>

(* generate_opentype_features: base_glyph of the record; a designator      *)
(* that gives no codepoint raises TypeError                                *)
ResolveBase ==
  /\ name_pc = "resolve"
  /\ IF codepoint_from_name(alt_record[1].base) = NoCp
     THEN /\ name_pc' = "raised"
          /\ UNCHANGED resolved_base
     ELSE /\ name_pc' = "done"
          /\ resolved_base' = BaseGlyphOf(alt_record[1])
  /\ UNCHANGED <<build_vars, plan_vars, draw_vars, svg_stem, alt_record>>

NameNext ==
  \/ DetectName
  \/ ResolveBase

NameSpec == NameInit /\ [][NameNext]_vars


(***************************************************************************)
(* One call of calculate_auto_sidebearings.  The bbox is None or has its   *)
(* x bounds (min_x <= max_x) among the multiples of 1/Scale between        *)
(* -MaxCoord and MaxCoord, negative and fractional ones included; so has   *)
(* the margin.                                                             *)
(***************************************************************************)
Coords == (-(MaxCoord * Scale))..(MaxCoord * Scale)

PlanBBoxes ==
  {NoBBox} \cup { <<b[1], 0, b[2], Scale>> :
                    b \in { c \in Coords \X Coords : c[1] <= c[2] } }

PlanInit ==
  /\ BuildIdle
  /\ NameIdle
  /\ DrawIdle
  /\ plan_bbox \in PlanBBoxes
  /\ plan_margin \in Coords
  /\ plan_out = << >>
  /\ plan_pc = "call"

PlanCall ==
  /\ plan_pc = "call"
  /\ plan_out' = calculate_auto_sidebearings(plan_bbox, plan_margin)
  /\ plan_pc' = "returned"
  /\ UNCHANGED <<build_vars, name_vars, draw_vars, plan_bbox, plan_margin>>

PlanNext == PlanCall

PlanSpec == PlanInit /\ [][PlanNext]_vars


(***************************************************************************)
(* One call of draw_svg_path_into_pen.  A coordinate is held as a whole    *)
(* number of eps (1e-6), so One is the coordinate 1.0 and the arithmetic   *)
(* is exact.  A point is <<x, y>>.  A segment is a record: kind, start,    *)
(* end, ctl (the control points of a Bezier curve) and cubics (the pieces  *)
(* as_cubic_curves() gives for an Arc, each <<control1, control2, end>>).  *)
(* A pen call is a record: op and pts (the points passed).                 *)
(***************************************************************************)
eps == 1
One == 1000000

Abs(x) == IF x >= 0 THEN x ELSE -x

svg_point_to_font(pt) ==
  <<pt[1],
    IF svg_y_down
    THEN (unitsPerEm * One - pt[2]) - baselineSvgY * One
    ELSE pt[2] - baselineSvgY * One>>

(* approx_equal comparing the x axis only *)
approx_equal_x(pt1, pt2) == Abs(pt1[1] - pt2[1]) <= eps

approx_equal(pt1, pt2) ==
  Abs(pt1[1] - pt2[1]) <= eps /\ Abs(pt1[2] - pt2[2]) <= eps

moveTo(pt) == [op |-> "moveTo", pts |-> <<pt>>]
lineTo(pt) == [op |-> "lineTo", pts |-> <<pt>>]
curveTo(c1, c2, pt) == [op |-> "curveTo", pts |-> <<c1, c2, pt>>]
closePath == [op |-> "closePath", pts |-> << >>]
endPath == [op |-> "endPath", pts |-> << >>]

(* p + 2.0/3.0*(q - p), one coordinate; the fixtures keep q - p a multiple  *)
(* of 3, so the division is exact                                          *)
TwoThirds(p, q) == p + (2 * (q - p)) \div 3

(* _draw_segment: the pen calls of one segment *)
draw_segment(seg) ==
  CASE seg.kind = "Line" -> <<lineTo(svg_point_to_font(seg.end))>>
    [] seg.kind = "QuadraticBezier" ->
         LET p0 == svg_point_to_font(seg.start)
             q1 == svg_point_to_font(seg.ctl[1])
             p2 == svg_point_to_font(seg.end)
             c1 == <<TwoThirds(p0[1], q1[1]), TwoThirds(p0[2], q1[2])>>
             c2 == <<TwoThirds(p2[1], q1[1]), TwoThirds(p2[2], q1[2])>>
         IN  <<curveTo(c1, c2, p2)>>
    [] seg.kind = "CubicBezier" ->
         <<curveTo(svg_point_to_font(seg.ctl[1]),
                   svg_point_to_font(seg.ctl[2]),
                   svg_point_to_font(seg.end))>>
    [] seg.kind = "Arc" ->
         [i \in 1..Len(seg.cubics) |->
            curveTo(svg_point_to_font(seg.cubics[i][1]),
                    svg_point_to_font(seg.cubics[i][2]),
                    svg_point_to_font(seg.cubics[i][3]))]
    [] OTHER -> <<lineTo(svg_point_to_font(seg.end))>>

(* for seg in segs: _draw_segment(seg, pen) *)
RECURSIVE draw_segments(_)
draw_segments(segs) ==
  IF segs = << >> THEN << >>
  ELSE draw_segment(Head(segs)) \o draw_segments(Tail(segs))

(* the terminator always closing the contour *)
AlwaysClose(start, end_pt) == closePath

(* closePath() if approx_equal(start, end_pt), endPath() otherwise *)
Terminator(start, end_pt) ==
  IF approx_equal(start, end_pt) THEN closePath ELSE endPath

(* The points of the paths: A, B, C are far apart; B_near is within eps of *)
(* B on both axes; B_off is within eps of B on the x axis only; A_near is  *)
(* within eps of A.                                                        *)
P_A == <<0, 0>>
P_A_near == <<0, eps>>
P_B == <<30 * One, 0>>
P_B_near == <<30 * One + eps, eps>>
P_B_off == <<30 * One + eps, eps + 1>>
P_C == <<30 * One, 60 * One>>

Segment(kind, start, end, ctl, cubics) ==
  [kind |-> kind, start |-> start, end |-> end, ctl |-> ctl,
   cubics |-> cubics]

Line(start, end) == Segment("Line", start, end, << >>, << >>)

Segments ==
  { Line(P_A, P_B),
    Line(P_B, P_C),
    Line(P_C, P_A),
    Line(P_B_near, P_C),
    Line(P_B_off, P_C),
    Segment("QuadraticBezier", P_B, P_C, <<P_A>>, << >>),
    Segment("CubicBezier", P_C, P_A_near, <<P_B, P_A>>, << >>),
    Segment("Arc", P_C, P_B, << >>, <<<<P_C, P_A, P_A>>, <<P_A, P_B, P_B>>>>) }

RECURSIVE PathsOfLen(_)
PathsOfLen(n) ==
  IF n = 0 THEN { << >> }
  ELSE { Append(q, seg) : q \in PathsOfLen(n - 1), seg \in Segments }

Paths == UNION { PathsOfLen(n) : n \in 0..MaxSegs }

DrawInit ==
  /\ BuildIdle
  /\ NameIdle
  /\ PlanIdle
  /\ svg_path \in Paths
  /\ svg_y_down \in BOOLEAN
  /\ seg_i = 1
  /\ current = << >>
  /\ prev_end = << >>
  /\ contours = << >>
  /\ contour_i = 1
  /\ pen_ops = << >>
  /\ draw_pc = "split"

(* _split_into_contours: one turn of `for seg in svg_path` *)
SplitStep ==
  /\ draw_pc = "split"
  /\ seg_i <= Len(svg_path)
  /\ LET seg == svg_path[seg_i]
         start == svg_point_to_font(seg.start)
         end == svg_point_to_font(seg.end)
     IN  /\ IF /\ prev_end # << >>
               /\ ~approx_equal(start, prev_end[1])
               /\ current # << >>
            THEN /\ contours' = Append(contours, current)
                 /\ current' = <<seg>>
            ELSE /\ current' = Append(current, seg)
                 /\ UNCHANGED contours
         /\ prev_end' = <<end>>
  /\ seg_i' = seg_i + 1
  /\ UNCHANGED <<build_vars, name_vars, plan_vars, svg_path, svg_y_down,
                 contour_i, pen_ops, draw_pc>>

(* _split_into_contours: after the loop (or at once for an empty path),    *)
(* the open run is appended and the contours are returned                  *)
SplitReturn ==
  /\ draw_pc = "split"
  /\ seg_i > Len(svg_path)
  /\ contours' = IF current # << >> THEN Append(contours, current)
                 ELSE contours
  /\ draw_pc' = "draw"
  /\ UNCHANGED <<build_vars, name_vars, plan_vars, svg_path, svg_y_down,
                 seg_i, current, prev_end, contour_i, pen_ops>>

(* draw_svg_path_into_pen: one turn of `for segs in contours` *)
DrawContour ==
  /\ draw_pc = "draw"
  /\ contour_i <= Len(contours)
  /\ LET segs == contours[contour_i]
     IN  IF segs = << >>
         THEN UNCHANGED pen_ops
         ELSE LET start == svg_point_to_font(segs[1].start)
                  end_pt == svg_point_to_font(segs[Len(segs)].end)
              IN  pen_ops' = pen_ops \o <<moveTo(start)>>
                               \o draw_segments(segs)
                               \o <<Terminator(start, end_pt)>>
  /\ contour_i' = contour_i + 1
  /\ UNCHANGED <<build_vars, name_vars, plan_vars, svg_path, svg_y_down,
                 seg_i, current, prev_end, contours, draw_pc>>

(* draw_svg_path_into_pen returns *)
DrawReturn ==
  /\ draw_pc = "draw"
  /\ contour_i > Len(contours)
  /\ draw_pc' = "done"
  /\ UNCHANGED <<build_vars, name_vars, plan_vars, svg_path, svg_y_down,
                 seg_i, current, prev_end, contours, contour_i, pen_ops>>

DrawNext ==
  \/ SplitStep
  \/ SplitReturn
  \/ DrawContour
  \/ DrawReturn

DrawSpec == DrawInit /\ [][DrawNext]_vars


(***************************************************************************)
(* Vocabulary of the properties.                                           *)
(***************************************************************************)
Range(q) == { q[i] : i \in 1..Len(q) }

Blocks == Range(features)

(* the substitution statements of every ss, cv and salt block *)
SubStmts ==
  UNION { { st \in Range(b.stmts) : st.op \in {"by", "from"} } : b \in Blocks }

(* every glyph name a substitution statement mentions *)
NamesInRules ==
  UNION { {st.base} \cup Range(st.alts) : st \in SubStmts }

Realized == DOMAIN u

BlocksTagged(tag) == { b \in Blocks : b.tag = tag }

(* the glyph is drawn from a source file *)
FromFile(g) == u[g].src # NoFile

IsRegular(g) == FromFile(g) /\ u[g].unicodes # << >>

IsAlternate(g) == FromFile(g) /\ u[g].unicodes = << >>

(* the records whose alternate and resolved base are both realized *)
ValidRecords ==
  { r \in Range(alternates) :
      r.name \in Realized /\ BaseGlyphOf(r) \in Realized }

(* C1: every glyph name in a substitution statement of the generated rules *)
(* (base or alternate, in any ss, cv or salt block) is a realized glyph,   *)
(* and a record whose alternate or resolved base is not realized has its   *)
(* alternate in no statement.                                              *)
C1_RulesNameRealizedGlyphs ==
  /\ NamesInRules \subseteq Realized
  /\ pc = "done" =>
       \A r \in Range(alternates) :
          (r.name \notin Realized \/ BaseGlyphOf(r) \notin Realized)
            => \A st \in SubStmts : r.name \notin Range(st.alts)

(* a run that produced rules while dropping a record whose base is missing *)
C1_Witness ==
  /\ pc = "done"
  /\ SubStmts # {}
  /\ \E r \in Range(alternates) :
        r.name \in Realized /\ BaseGlyphOf(r) \notin Realized

(* every (left, right, value) of the kerning configuration *)
ConfiguredKerning ==
  UNION { { <<kerning_config[i].name, kerning_config[i].rights[j].name,
              kerning_config[i].rights[j].value>> :
            j \in 1..Len(kerning_config[i].rights) } :
          i \in 1..Len(kerning_config) }

(* C8: the kerning table of a finished run holds exactly the configured    *)
(* pairs whose left and right glyphs are both realized, each with its      *)
(* configured value.                                                       *)
C8_KerningFilter ==
  pc = "done" =>
    /\ DOMAIN kerning =
         { <<k[1], k[2]>> : k \in { c \in ConfiguredKerning :
                                      c[1] \in Realized /\ c[2] \in Realized } }
    /\ \A k \in ConfiguredKerning :
          <<k[1], k[2]>> \in DOMAIN kerning => kerning[<<k[1], k[2]>>] = k[3]

(* a finished run that kept one configured pair and dropped another *)
C8_Witness ==
  /\ pc = "done"
  /\ <<G_uni0061, G_uni0062>> \in DOMAIN kerning
  /\ \E k \in ConfiguredKerning : <<k[1], k[2]>> \notin DOMAIN kerning

(* the alternates of a base glyph, over records of every kind *)
AlternatesOf(base_glyph) ==
  { r.name : r \in { v \in ValidRecords : BaseGlyphOf(v) = base_glyph } }

BasesWithAlternates == { BaseGlyphOf(r) : r \in ValidRecords }

(* C10: the salt block has exactly one statement per base glyph that has   *)
(* a valid alternate of any kind: "by" its alternate when it has one,      *)
(* "from" the list of all its alternates, each once, when it has several.  *)
C10_SaltPerBase ==
  pc = "done" =>
    /\ (BlocksTagged(T_salt) # {}) = (BasesWithAlternates # {})
    /\ Cardinality(BlocksTagged(T_salt)) <= 1
    /\ \A b \in BlocksTagged(T_salt) :
          /\ Len(b.stmts) = Cardinality(BasesWithAlternates)
          /\ \A base_glyph \in BasesWithAlternates :
                \E i \in 1..Len(b.stmts) :
                   LET st == b.stmts[i]
                   IN  /\ st.base = base_glyph
                       /\ Range(st.alts) = AlternatesOf(base_glyph)
                       /\ Len(st.alts) = Cardinality(AlternatesOf(base_glyph))
                       /\ st.op = IF Len(st.alts) = 1 THEN "by" ELSE "from"

(* a salt statement listing a stylistic set and a character variant of     *)
(* the same base                                                           *)
C10_Witness ==
  /\ pc = "done"
  /\ \E b \in BlocksTagged(T_salt) :
        \E st \in Range(b.stmts) :
           /\ st.op = "from"
           /\ st.base = G_uni0061
           /\ G_uni0061_ss01 \in Range(st.alts)
           /\ G_uni0061 \o <<".", "c", "v", "0", "1">> \in Range(st.alts)


(* the width of every glyph of a font *)
Widths(font) == [g \in DOMAIN font |-> font[g].width]

(* C2: a second run over the same files and configuration gives the same   *)
(* glyph order, the same width for every glyph and the same rule text as   *)
(* the first, whatever order the directory was listed in.                  *)
C2_SecondRunSameOutput ==
  (run = 2 /\ pc = "done") =>
    /\ glyph_order = first.glyph_order
    /\ Widths(u) = Widths(first.u)
    /\ features = first.features

(* the position of a realized glyph in the glyph order *)
PositionsOf(g) == { i \in 1..Len(glyph_order) : glyph_order[i] = g }

(* glyph g is listed before glyph h *)
ListedBefore(g, h) ==
  \E i \in PositionsOf(g) : \E j \in PositionsOf(h) : i < j

(* the files of g and h are in file-name order *)
FilesInOrder(g, h) == StrLess(FileName(u[g].src), FileName(u[h].src))

(* C3: .notdef is first in the glyph order, then the regular glyphs by     *)
(* source file name, then the alternate glyphs by source file name, and    *)
(* every realized glyph is listed exactly once.                            *)
C3_GlyphOrder ==
  pc = "done" =>
    /\ glyph_order[1] = G_notdef
    /\ \A g \in Realized : Cardinality(PositionsOf(g)) = 1
    /\ Range(glyph_order) = Realized
    /\ \A g, h \in Realized :
          /\ (IsRegular(g) /\ IsAlternate(h)) => ListedBefore(g, h)
          /\ (IsRegular(g) /\ IsRegular(h) /\ FilesInOrder(g, h))
               => ListedBefore(g, h)
          /\ (IsAlternate(g) /\ IsAlternate(h) /\ FilesInOrder(g, h))
               => ListedBefore(g, h)

(* the glyph name a source file maps to; none (empty) for a file that is   *)
(* neither a variant nor the file of a codepoint                           *)
GlyphNameOfFile(stem) ==
  IF DetectOne(stem) # << >> THEN DetectOne(stem)[1].name
  ELSE IF codepoint_from_name(stem) = NoCp THEN << >>
  ELSE GlyphNameOfCp(codepoint_from_name(stem))

FilesOf(g) == { f \in dir : GlyphNameOfFile(f) = g }

(* the first of a set of files in file-name order *)
FirstFile(S) ==
  CHOOSE f \in S : \A h \in S \ {f} : StrLess(FileName(f), FileName(h))

(* the codepoint a regular source file gives its glyph *)
UnicodesOfFile(stem) ==
  IF DetectOne(stem) # << >> THEN << >> ELSE <<codepoint_from_name(stem)>>

(* C4: a glyph drawn from a source file has the outline and the codepoint  *)
(* of the first, in file-name order, of the files that map to its name.    *)
C4_FirstWriterWins ==
  pc = "done" =>
    \A g \in Realized :
       FromFile(g) =>
         /\ u[g].src = FirstFile(FilesOf(g))
         /\ u[g].unicodes = UnicodesOfFile(FirstFile(FilesOf(g)))

(* C5: within a run, a variant record once detected is never replaced:     *)
(* its source file, base and number stay those of the first-discovered     *)
(* identifier.                                                             *)
C5_FirstRecordKept ==
  [][(run' = run /\ pc = "detect") =>
       \A i \in 1..Len(alternates) :
          /\ i <= Len(alternates')
          /\ alternates'[i] = alternates[i]]_vars

(* the plan the auto-sidebearing analysis computes from a file's own bbox *)
PlanOfFile(stem) ==
  calculate_auto_sidebearings(get_svg_bbox(stem), autoSidebearingMargin * Scale)

(* C6: for every glyph built from a source file, regular or alternate: a   *)
(* manual override of its name decides its width (and, with a left margin  *)
(* and a bbox, its offset: left margin - source min x); else, with         *)
(* auto-sidebearing on and a bbox for its file, the plan of that file      *)
(* decides width and offset; else the default width and no offset.         *)
C6_MetricPriority ==
  pc = "done" =>
    \A g \in Realized :
       FromFile(g) =>
         LET bbox == get_svg_bbox(u[g].src)
         IN  IF DictHas(metrics_config, g)
             THEN LET metrics == DictGet(metrics_config, g)
                  IN  /\ metrics.has_width => u[g].width = metrics.width
                      /\ (metrics.has_leftMargin /\ bbox # NoBBox)
                           => u[g].offset = metrics.leftMargin * Scale - bbox[1]
             ELSE IF auto_sidebearing /\ bbox # NoBBox
             THEN /\ u[g].width = PlanOfFile(u[g].src)[1].width
                  /\ u[g].offset = PlanOfFile(u[g].src)[1].offsetX
             ELSE /\ u[g].width = defaultAdvanceWidth
                  /\ u[g].offset = 0

(* C7: no run is aborted: whatever the files, build_ufo goes on to the     *)
(* rule synthesis and the final glyph set.                                 *)
C7_NeverAborts == pc # "aborted"


(* the blocks other than aalt, and the references of the aalt block *)
OtherBlocks == SelectSeq(features, LAMBDA b : b.tag # T_aalt)

AaltStmts == Last(features).stmts

IsSsTag(tag) == startswith(tag, <<"s", "s">>)

IsCvTag(tag) == startswith(tag, <<"c", "v">>)

(* aalt is the last block of a rule text that has any block, it holds only *)
(* feature references, and it refers to each other block's tag once        *)
AaltRefersToAll ==
  /\ Last(features).tag = T_aalt
  /\ Len(OtherBlocks) = Len(features) - 1
  /\ \A i \in 1..Len(AaltStmts) : AaltStmts[i].op = "feature"
  /\ \A b \in Range(OtherBlocks) :
        Cardinality({ i \in 1..Len(AaltStmts) : AaltStmts[i].ref = b.tag }) = 1
  /\ Len(AaltStmts) = Len(OtherBlocks)

(* the references to ss tags and those to cv tags are each in ascending    *)
(* order                                                                   *)
SetTagsAscending ==
  \A i, j \in 1..Len(AaltStmts) :
     (/\ i < j
      /\ \/ IsSsTag(AaltStmts[i].ref) /\ IsSsTag(AaltStmts[j].ref)
         \/ IsCvTag(AaltStmts[i].ref) /\ IsCvTag(AaltStmts[j].ref))
       => StrLess(AaltStmts[i].ref, AaltStmts[j].ref)

(* C9, as the code has it: whenever a feature was produced, the aalt block *)
(* is produced, holds only feature references, refers to every produced   *)
(* tag exactly once, and lists the references in the order the features    *)
(* were produced: the ss tags in ascending order, then the cv tags in      *)
(* ascending order, then salt last.                                        *)
C9_AaltSaltLast ==
  (pc = "done" /\ features # << >>) =>
    /\ AaltRefersToAll
    /\ SetTagsAscending
    /\ AaltStmts[Len(AaltStmts)].ref = T_salt
    /\ \A i, j \in 1..Len(AaltStmts) :
          (IsSsTag(AaltStmts[i].ref) /\ IsCvTag(AaltStmts[j].ref)) => i < j

(* C9, as claimed: ... and lists salt first, followed by the ss and cv     *)
(* tags in sorted order.                                                   *)
C9_AaltSaltFirst ==
  (pc = "done" /\ features # << >>) =>
    /\ AaltRefersToAll
    /\ SetTagsAscending
    /\ AaltStmts[1].ref = T_salt

(* a rule text with a stylistic set, a character variant, salt and aalt *)
C9_Witness ==
  /\ pc = "done"
  /\ Len(features) = 4
  /\ \E i, j, k \in 1..Len(AaltStmts) :
        /\ IsSsTag(AaltStmts[i].ref)
        /\ IsCvTag(AaltStmts[j].ref)
        /\ AaltStmts[k].ref = T_salt


(***************************************************************************)
(* C11  Alternate naming agrees with base naming: the record of a variant  *)
(* file "U+XXXX-ss<NN>" or "U+XXXX-cv<NN>" whose designator is a valid     *)
(* codepoint (4 to 6 hexadecimal digits) is named by the glyph name the    *)
(* ordinary glyph of that codepoint receives, followed by ".ss<NN>" or     *)
(* ".cv<NN>" with NN padded to 2 digits; and that prefix is the base       *)
(* glyph name rule synthesis resolves for the record.                      *)
(***************************************************************************)
VariantMark(alt_info) ==
  IF alt_info.type = "stylistic_set"
  THEN <<".", "s", "s">> ELSE <<".", "c", "v">>

C11_AlternateNamedAfterBase ==
  (name_pc = "done" /\ alt_record # << >> /\ UNICODE_RE(alt_record[1].base))
    => LET alt_info == alt_record[1]
           cp == codepoint_from_name(alt_info.base)
       IN  /\ alt_info.name = GlyphNameOfCp(cp) \o VariantMark(alt_info)
                                 \o zfill(alt_info.number, 2)
           /\ BeforeDot(alt_info.name) = resolved_base


(***************************************************************************)
(* C12  Space glyph: when a run is over exactly one glyph of the font      *)
(* carries the codepoint U+0020.  It is built from a source file that maps *)
(* to U+0020 when the directory holds such a file; otherwise it is the     *)
(* synthesized glyph, with nothing drawn and the default advance width.    *)
(* So the fallback is synthesized if and only if no file maps to U+0020.   *)
(***************************************************************************)
SpaceCarriers == { g \in DOMAIN u : SpaceCp \in Range(u[g].unicodes) }

SpaceFiles == { stem \in dir : codepoint_from_name(stem) = SpaceCp }

C12_OneSpaceGlyph ==
  pc = "done"
    => /\ Cardinality(SpaceCarriers) = 1
       /\ \A g \in SpaceCarriers :
             IF SpaceFiles # {}
             THEN u[g].src \in SpaceFiles
             ELSE /\ u[g].src = NoFile
                  /\ u[g].width = defaultAdvanceWidth

(* a finished run over a directory with two files for U+0020 *)
C12_Witness ==
  /\ pc = "done"
  /\ SpaceFiles = {F_0020, F_sp}
  /\ Cardinality(SpaceCarriers) = 1
  /\ F_0020 \in skipped


(***************************************************************************)
(* C16  With auto-sidebearing on, a glyph that takes its metrics from the  *)
(* computed plan (no manual override of its name, a plan under its name)   *)
(* has the width and the horizontal offset of the plan of the bounding box *)
(* of the very file its outline was drawn from, also when several files    *)
(* map to its name and all but the first are skipped.                      *)
(***************************************************************************)
TakesAutoPlan(g) ==
  /\ auto_sidebearing
  /\ FromFile(g)
  /\ ~DictHas(metrics_config, g)
  /\ g \in DOMAIN calculated_metrics

C16_PlanOfDrawnFile ==
  pc = "done" =>
    \A g \in Realized :
       TakesAutoPlan(g) =>
         /\ PlanOfFile(u[g].src) # << >>
         /\ u[g].width = PlanOfFile(u[g].src)[1].width
         /\ u[g].offset = PlanOfFile(u[g].src)[1].offsetX


(***************************************************************************)
(* C13  Sidebearing plan.  The plan is absent exactly when the bbox is.    *)
(* Otherwise, for every bbox and margin: offsetX = margin - min_x, and     *)
(*   as the code computes it: width = the sum margin + (max_x - min_x) +   *)
(*     margin cut to an integer towards zero, and leftMargin = rightMargin *)
(*     = the margin cut to an integer towards zero;                        *)
(*   as the claim states it: width = the floor of that sum, and            *)
(*     leftMargin = rightMargin = the margin itself.                       *)
(***************************************************************************)
PlanAbsentIffNoBBox ==
  plan_pc = "returned" => (plan_out = << >> <=> plan_bbox = NoBBox)

PlanSum == plan_margin + (plan_bbox[3] - plan_bbox[1]) + plan_margin

TowardsZero(v) == IF v >= 0 THEN v \div Scale ELSE -((-v) \div Scale)

C13_PlanTruncates ==
  /\ PlanAbsentIffNoBBox
  /\ (plan_pc = "returned" /\ plan_bbox # NoBBox)
       => /\ plan_out[1].width = TowardsZero(PlanSum)
          /\ plan_out[1].leftMargin = TowardsZero(plan_margin)
          /\ plan_out[1].rightMargin = TowardsZero(plan_margin)
          /\ plan_out[1].offsetX = plan_margin - plan_bbox[1]

C13_PlanFloors ==
  /\ PlanAbsentIffNoBBox
  /\ (plan_pc = "returned" /\ plan_bbox # NoBBox)
       => /\ plan_out[1].width = PlanSum \div Scale
          /\ plan_out[1].leftMargin * Scale = plan_margin
          /\ plan_out[1].rightMargin * Scale = plan_margin
          /\ plan_out[1].offsetX = plan_margin - plan_bbox[1]

(* a plan for a negative fractional sum and a fractional margin *)
C13_Witness ==
  /\ plan_pc = "returned"
  /\ plan_bbox # NoBBox
  /\ PlanSum < 0
  /\ PlanSum % Scale # 0
  /\ plan_margin % Scale # 0
  /\ plan_out # << >>


(***************************************************************************)
(* Vocabulary of the contour properties.  Near is approximate equality as  *)
(* the claims state it: within eps on each axis.                           *)
(***************************************************************************)
Near(p, q) ==
  /\ p[1] - q[1] <= eps /\ q[1] - p[1] <= eps
  /\ p[2] - q[2] <= eps /\ q[2] - p[2] <= eps

MappedStart(seg) == svg_point_to_font(seg.start)

MappedEnd(seg) == svg_point_to_font(seg.end)

RECURSIVE Concat(_)
Concat(qs) == IF qs = << >> THEN << >> ELSE Head(qs) \o Concat(Tail(qs))

(* the number of segments in the first k contours *)
RECURSIVE SegmentsUpTo(_)
SegmentsUpTo(k) ==
  IF k = 0 THEN 0 ELSE SegmentsUpTo(k - 1) + Len(contours[k])

(* the positions i of the path with a contour boundary between segment i   *)
(* and segment i + 1                                                       *)
Boundaries == { SegmentsUpTo(k) : k \in 1..(Len(contours) - 1) }

Split == draw_pc \in {"draw", "done"}

(***************************************************************************)
(* C14  Contour splitting is an order-preserving partition: once the path  *)
(* is split, every contour is non-empty, the contours concatenated in      *)
(* order are the path, and a boundary lies between two consecutive         *)
(* segments exactly when the later one's mapped start is not within eps,   *)
(* on each axis, of the earlier one's mapped end.                          *)
(***************************************************************************)
C14_OrderPreservingPartition ==
  Split =>
    /\ \A k \in 1..Len(contours) : contours[k] # << >>
    /\ Concat(contours) = svg_path
    /\ \A i \in 1..(Len(svg_path) - 1) :
          i \in Boundaries
            <=> ~Near(MappedStart(svg_path[i + 1]), MappedEnd(svg_path[i]))

(* a path split in two, one contour joining two segments that meet within  *)
(* eps without meeting exactly                                             *)
C14_Witness ==
  /\ Split
  /\ Len(contours) = 2
  /\ \E k \in 1..2 :
        /\ Len(contours[k]) = 2
        /\ MappedStart(contours[k][2]) # MappedEnd(contours[k][1])
        /\ Near(MappedStart(contours[k][2]), MappedEnd(contours[k][1]))

(***************************************************************************)
(* C15  Pen protocol per contour: when the path is drawn, the pen has      *)
(* received, for each contour in order, one moveTo at the mapped start of  *)
(* its first segment, then the drawing calls of its segments in order,     *)
(* then one terminator: closePath if the mapped start of the first segment *)
(* and the mapped end of the last are within eps on each axis, endPath     *)
(* otherwise.  So no drawing call lies outside a moveTo/terminator pair.   *)
(***************************************************************************)
IsTerminator(call) == call.op \in {"closePath", "endPath"}

IsDrawing(call) == call.op \in {"lineTo", "curveTo"}

MovePositions == { i \in 1..Len(pen_ops) : pen_ops[i].op = "moveTo" }

TerminatorPositions == { i \in 1..Len(pen_ops) : IsTerminator(pen_ops[i]) }

(* the k-th smallest member of a set of positions *)
Nth(S, k) == CHOOSE i \in S : Cardinality({ j \in S : j <= i }) = k

C15_PenProtocol ==
  draw_pc = "done" =>
    /\ Cardinality(MovePositions) = Len(contours)
    /\ Cardinality(TerminatorPositions) = Len(contours)
    /\ \A k \in 1..Len(contours) :
          LET from == Nth(MovePositions, k)
              to == Nth(TerminatorPositions, k)
              segs == contours[k]
              first_start == MappedStart(segs[1])
              last_end == MappedEnd(segs[Len(segs)])
          IN  /\ from = IF k = 1 THEN 1
                        ELSE Nth(TerminatorPositions, k - 1) + 1
              /\ from < to
              /\ k = Len(contours) => to = Len(pen_ops)
              /\ pen_ops[from].pts = <<first_start>>
              /\ \A i \in (from + 1)..(to - 1) : IsDrawing(pen_ops[i])
              /\ SubSeq(pen_ops, from + 1, to - 1) = draw_segments(segs)
              /\ pen_ops[to].op = "closePath" <=> Near(first_start, last_end)
    /\ Len(contours) = 0 => pen_ops = << >>

(* a drawn path with a closed contour, an open contour and a curve *)
C15_Witness ==
  /\ draw_pc = "done"
  /\ \E i \in 1..Len(pen_ops) : pen_ops[i].op = "closePath"
  /\ \E i \in 1..Len(pen_ops) : pen_ops[i].op = "endPath"
  /\ \E i \in 1..Len(pen_ops) : pen_ops[i].op = "curveTo"
  /\ \E k \in 1..Len(contours) :
        LET first_start == MappedStart(contours[k][1])
            last_end == MappedEnd(contours[k][Len(contours[k])])
        IN  first_start # last_end /\ Near(first_start, last_end)


=============================================================================
